---- MODULE Spec2Model ----
(***************************************************************************)
(* Win-probability engine of mlb-win-probability (src/win_probability.py)   *)
(* and the live feed that supplies it with game states (src/live_feed.py). *)
(*                                                                         *)
(* The engine is a set of pure functions over a game state.  The state of  *)
(* the model is the last engine call made by a caller (the HTTP layer of   *)
(* src/api.py, the UI, the live feed): which function, with which          *)
(* arguments, what it returned and, for calculate_wp, which return         *)
(* statement produced the value.  A client makes one call at a time: the   *)
(* engine is idle, computes a call, and the client takes the result.       *)
(*                                                                         *)
(* Numbers.  The code computes in binary floating point; the model         *)
(* computes in decimal fixed point:                                        *)
(*   - run values and probabilities are integers in units of 1e-6 (MICRO), *)
(*   - runs_per_game is an integer in tenths of a run (4.5 -> 45),         *)
(*   - the RE24 table is in thousandths, exactly the literals of the code, *)
(*   - a standard deviation and a z-score are in units of 1e-4.            *)
(* Products are split so that no intermediate value leaves 32 bits.  The   *)
(* library functions (np.sqrt, np.exp, scipy norm.cdf / poisson.cdf) are   *)
(* evaluated numerically: integer Newton iteration, a Taylor series, a     *)
(* tabulated CDF with linear interpolation, and the Poisson recurrence;    *)
(* np.log by halving and the atanh series.  An optional value is the empty *)
(* sequence for None and a sequence of one element otherwise; an OPS is in *)
(* thousandths, an ERA in hundredths.                                      *)
(* Every division truncates, so a modelled value is within about 1e-4 of   *)
(* the floating-point value.                                               *)
(***************************************************************************)
EXTENDS Integers, Sequences, FiniteSets, TLC

VARIABLES call, result, line

vars == <<call, result, line>>

-----------------------------------------------------------------------------
(* Bounds of the explored input space *)

MaxInning == 10
MaxDiff == 3
MaxLi == 400
MaxDelta == 60
MaxAnalysisDiff == 1
MaxRuns == 1
MaxPlays == 3

-----------------------------------------------------------------------------
(* Units and program constants *)

MICRO == 1000 * 1000

MLB_RPG == 45
NPB_RPG == 40
MIN_RPG == 20
MAX_RPG == 80

RpgValues == {MIN_RPG, NPB_RPG, MLB_RPG, MAX_RPG}
\* every runs_per_game the API serves, in steps of 0.1
RpgGrid == MIN_RPG..MAX_RPG
Innings == 1..MaxInning
Halves == {"top", "bottom"}
OutsValues == 0..2
Runners == {<<a, b, c>> : a \in 0..1, b \in 0..1, c \in 0..1}
ScoreDiffs == (0 - MaxDiff)..MaxDiff

Min(a, b) == IF a < b THEN a ELSE b
Max(a, b) == IF a > b THEN a ELSE b
Abs(a) == IF a < 0 THEN 0 - a ELSE a

-----------------------------------------------------------------------------
(* Fixed-point arithmetic and the numeric library functions *)

\* a * b / 1e6 for a, b >= 0 in units of 1e-6, truncated
Mul6(a, b) ==
    LET a1 == a \div 1000
        a0 == a % 1000
        b1 == b \div 1000
        b0 == b % 1000
    IN  a1 * b1 + (a1 * b0 + a0 * b1 + (a0 * b0) \div 1000) \div 1000

\* floor(sqrt(n)) by Newton iteration (np.sqrt)
RECURSIVE NewtonSqrt(_, _)
NewtonSqrt(n, x) ==
    LET y == (x + n \div x) \div 2
    IN  IF y >= x THEN x ELSE NewtonSqrt(n, y)

Isqrt(n) == IF n < 2 THEN n ELSE NewtonSqrt(n, n)

\* e^(-n) for whole n, in units of 1e-6
ExpNegWhole ==
    <<367879, 135335, 49787, 18316, 6738, 2479, 912, 335, 123, 45, 17, 6, 2, 1>>

\* Taylor series of e^(-f), 0 <= f < 1: acc + sum over k of (-f)^k / k!
RECURSIVE ExpTaylor(_, _, _, _)
ExpTaylor(f, k, term, acc) ==
    IF term = 0 \/ k > 14 THEN acc
    ELSE LET t == Mul6(term, f) \div k
         IN  ExpTaylor(f, k + 1, t, IF k % 2 = 1 THEN acc - t ELSE acc + t)

\* np.exp(-x) for x >= 0, argument and value in units of 1e-6
exp_neg(x) ==
    LET n == x \div MICRO
        f == x % MICRO
        whole == IF n = 0 THEN MICRO
                 ELSE IF n <= Len(ExpNegWhole) THEN ExpNegWhole[n] ELSE 0
    IN  Mul6(whole, ExpTaylor(f, 1, MICRO, MICRO))

\* Standard normal CDF at z = 0.00, 0.01, ..., 4.01, in units of 1e-6
PhiTable ==
    <<
      500000, 503989, 507978, 511966, 515953, 519939, 523922, 527903, 531881, 535856,
      539828, 543795, 547758, 551717, 555670, 559618, 563559, 567495, 571424, 575345,
      579260, 583166, 587064, 590954, 594835, 598706, 602568, 606420, 610261, 614092,
      617911, 621720, 625516, 629300, 633072, 636831, 640576, 644309, 648027, 651732,
      655422, 659097, 662757, 666402, 670031, 673645, 677242, 680822, 684386, 687933,
      691462, 694974, 698468, 701944, 705401, 708840, 712260, 715661, 719043, 722405,
      725747, 729069, 732371, 735653, 738914, 742154, 745373, 748571, 751748, 754903,
      758036, 761148, 764238, 767305, 770350, 773373, 776373, 779350, 782305, 785236,
      788145, 791030, 793892, 796731, 799546, 802337, 805105, 807850, 810570, 813267,
      815940, 818589, 821214, 823814, 826391, 828944, 831472, 833977, 836457, 838913,
      841345, 843752, 846136, 848495, 850830, 853141, 855428, 857690, 859929, 862143,
      864334, 866500, 868643, 870762, 872857, 874928, 876976, 879000, 881000, 882977,
      884930, 886861, 888768, 890651, 892512, 894350, 896165, 897958, 899727, 901475,
      903200, 904902, 906582, 908241, 909877, 911492, 913085, 914657, 916207, 917736,
      919243, 920730, 922196, 923641, 925066, 926471, 927855, 929219, 930563, 931888,
      933193, 934478, 935745, 936992, 938220, 939429, 940620, 941792, 942947, 944083,
      945201, 946301, 947384, 948449, 949497, 950529, 951543, 952540, 953521, 954486,
      955435, 956367, 957284, 958185, 959070, 959941, 960796, 961636, 962462, 963273,
      964070, 964852, 965620, 966375, 967116, 967843, 968557, 969258, 969946, 970621,
      971283, 971933, 972571, 973197, 973810, 974412, 975002, 975581, 976148, 976705,
      977250, 977784, 978308, 978822, 979325, 979818, 980301, 980774, 981237, 981691,
      982136, 982571, 982997, 983414, 983823, 984222, 984614, 984997, 985371, 985738,
      986097, 986447, 986791, 987126, 987455, 987776, 988089, 988396, 988696, 988989,
      989276, 989556, 989830, 990097, 990358, 990613, 990863, 991106, 991344, 991576,
      991802, 992024, 992240, 992451, 992656, 992857, 993053, 993244, 993431, 993613,
      993790, 993963, 994132, 994297, 994457, 994614, 994766, 994915, 995060, 995201,
      995339, 995473, 995604, 995731, 995855, 995975, 996093, 996207, 996319, 996427,
      996533, 996636, 996736, 996833, 996928, 997020, 997110, 997197, 997282, 997365,
      997445, 997523, 997599, 997673, 997744, 997814, 997882, 997948, 998012, 998074,
      998134, 998193, 998250, 998305, 998359, 998411, 998462, 998511, 998559, 998605,
      998650, 998694, 998736, 998777, 998817, 998856, 998893, 998930, 998965, 998999,
      999032, 999065, 999096, 999126, 999155, 999184, 999211, 999238, 999264, 999289,
      999313, 999336, 999359, 999381, 999402, 999423, 999443, 999462, 999481, 999499,
      999517, 999534, 999550, 999566, 999581, 999596, 999610, 999624, 999638, 999651,
      999663, 999675, 999687, 999698, 999709, 999720, 999730, 999740, 999749, 999758,
      999767, 999776, 999784, 999792, 999800, 999807, 999815, 999822, 999828, 999835,
      999841, 999847, 999853, 999858, 999864, 999869, 999874, 999879, 999883, 999888,
      999892, 999896, 999900, 999904, 999908, 999912, 999915, 999918, 999922, 999925,
      999928, 999931, 999933, 999936, 999938, 999941, 999943, 999946, 999948, 999950,
      999952, 999954, 999956, 999958, 999959, 999961, 999963, 999964, 999966, 999967,
      999968, 999970
    >>

\* scipy.stats.norm.cdf(z), z in units of 1e-4, value in units of 1e-6
norm_cdf(z) ==
    LET a == Min(Abs(z), 40000)
        i == a \div 100
        fr == a % 100
        lo == PhiTable[i + 1]
        hi == PhiTable[i + 2]
        up == lo + ((hi - lo) * fr) \div 100
    IN  IF z >= 0 THEN up ELSE MICRO - up

\* sum of the Poisson probabilities of i..k, where term is the one of i - 1
RECURSIVE PoissonSum(_, _, _, _)
PoissonSum(i, k, term, lam) ==
    IF i > k THEN 0
    ELSE LET t == Mul6(term, lam) \div i
         IN  t + PoissonSum(i + 1, k, t, lam)

\* scipy.stats.poisson.cdf(k, lam), lam and value in units of 1e-6
poisson_cdf(k, lam) ==
    IF k < 0 THEN 0
    ELSE LET p0 == exp_neg(lam)
         IN  Min(MICRO, p0 + PoissonSum(1, k, p0, lam))

-----------------------------------------------------------------------------
(* RE24 table (thousandths of a run), key <<runner1, runner2, runner3, outs>> *)

RE24_MLB ==
    (<<0, 0, 0, 0>> :> 481)  @@ (<<1, 0, 0, 0>> :> 859)  @@
    (<<0, 1, 0, 0>> :> 1100) @@ (<<1, 1, 0, 0>> :> 1437) @@
    (<<0, 0, 1, 0>> :> 1350) @@ (<<1, 0, 1, 0>> :> 1784) @@
    (<<0, 1, 1, 0>> :> 1964) @@ (<<1, 1, 1, 0>> :> 2292) @@
    (<<0, 0, 0, 1>> :> 254)  @@ (<<1, 0, 0, 1>> :> 509)  @@
    (<<0, 1, 0, 1>> :> 664)  @@ (<<1, 1, 0, 1>> :> 884)  @@
    (<<0, 0, 1, 1>> :> 950)  @@ (<<1, 0, 1, 1>> :> 1130) @@
    (<<0, 1, 1, 1>> :> 1376) @@ (<<1, 1, 1, 1>> :> 1541) @@
    (<<0, 0, 0, 2>> :> 98)   @@ (<<1, 0, 0, 2>> :> 224)  @@
    (<<0, 1, 0, 2>> :> 319)  @@ (<<1, 1, 0, 2>> :> 429)  @@
    (<<0, 0, 1, 2>> :> 353)  @@ (<<1, 0, 1, 2>> :> 478)  @@
    (<<0, 1, 1, 2>> :> 580)  @@ (<<1, 1, 1, 2>> :> 752)

\* a lookup that takes the last table row of the runners for a missing key
get_re24_clipped(runners, outs, runs_per_game) ==
    LET key == <<runners[1], runners[2], runners[3], Min(outs, 2)>>
        base == IF key \in DOMAIN RE24_MLB THEN RE24_MLB[key] ELSE 0
    IN  (base * 1000 * runs_per_game) \div MLB_RPG

\* a lookup that forgets the scoring environment
get_re24_unscaled(runners, outs, runs_per_game) ==
    LET key == <<runners[1], runners[2], runners[3], outs>>
        base == IF key \in DOMAIN RE24_MLB THEN RE24_MLB[key] ELSE 0
    IN  base * 1000

\* get_re24: RE24_MLB.get(key, 0.0) * (runs_per_game / MLB_RPG), in 1e-6 runs
get_re24(runners, outs, runs_per_game) ==
    LET key == <<runners[1], runners[2], runners[3], outs>>
        base == IF key \in DOMAIN RE24_MLB THEN RE24_MLB[key] ELSE 0
    IN  (base * 1000 * runs_per_game) \div MLB_RPG

-----------------------------------------------------------------------------
(* Win probability *)

\* _remaining_innings, in half innings (0.5 -> 1)
_remaining_innings(inning, top_bottom) ==
    IF top_bottom = "top" THEN Max(2 * (9 - inning + 1), 1)
    ELSE Max(2 * (9 - inning) + 1, 1)

\* min(0.99, max(0.01, wp))
Clamp(wp) == Min(990000, Max(10000, wp))

\* an endgame test that starts after the 9th inning instead of in it
calculate_wp_line_after_ninth(inning, top_bottom, score_diff) ==
    IF inning > 9 /\ top_bottom = "bottom"
    THEN IF score_diff > 0 THEN 158
         ELSE IF score_diff = 0 THEN 169 ELSE 181
    ELSE IF inning > 9 /\ top_bottom = "top" /\ score_diff > 0 THEN 193
         ELSE 197

\* The return statement of calculate_wp that a call leaves through
calculate_wp_line(inning, top_bottom, score_diff) ==
    IF inning >= 9 /\ top_bottom = "bottom"
    THEN IF score_diff > 0 THEN 158
         ELSE IF score_diff = 0 THEN 169 ELSE 181
    ELSE IF inning >= 9 /\ top_bottom = "top" /\ score_diff > 0 THEN 193
         ELSE 197

\* a tie that the home team wins only by scoring and then winning in extras
wp_tied_must_win_extras(re) ==
    LET p_score_1 == MICRO - exp_neg((re * 18) \div 10)
        wp == (p_score_1 * 50) \div 100
    IN  Clamp(wp)

\* line 169: tie in the bottom of the 9th or later
wp_tied(re) ==
    LET p_score_1 == MICRO - exp_neg((re * 18) \div 10)
        wp == p_score_1 + ((MICRO - p_score_1) * 50) \div 100
    IN  Clamp(wp)

\* line 181: home trails in the bottom of the 9th or later
wp_behind(re, score_diff) ==
    LET needed == Abs(score_diff)
        lam == (re * 15) \div 10
        p_enough == MICRO - poisson_cdf(needed - 1, lam)
    IN  Clamp(p_enough)

\* the visitor's chance returned in place of the home team's
wp_top_lead_visitor(re, score_diff) ==
    LET lam == (re * 13) \div 10
        p_tie_or_lead == MICRO - poisson_cdf(score_diff - 1, lam)
        p_lead == MICRO - poisson_cdf(score_diff, lam)
        p_home_loses == p_lead + ((p_tie_or_lead - p_lead) * 45) \div 100
    IN  Clamp(p_home_loses)

\* line 193: home leads, visitor bats in the 9th or later
wp_top_lead(re, score_diff) ==
    LET lam == (re * 13) \div 10
        p_tie_or_lead == MICRO - poisson_cdf(score_diff - 1, lam)
        p_lead == MICRO - poisson_cdf(score_diff, lam)
        p_home_loses == p_lead + ((p_tie_or_lead - p_lead) * 45) \div 100
    IN  Clamp(MICRO - p_home_loses)

\* norm.cdf(home_mean / max(home_std, 0.1)) before the clamp of line 197
wp_normal_raw(inning, top_bottom, re, score_diff, runs_per_game) ==
    LET away_extra == IF top_bottom = "top" THEN re ELSE 0
        home_extra == IF top_bottom = "top" THEN 0 ELSE re
        runs_per_half == (runs_per_game * 100000) \div 18
        away_remaining_halves == Max(9 - inning, 0)
        home_remaining_halves ==
            IF top_bottom = "top" THEN Max(9 - inning + 1, 1)
            ELSE Max(9 - inning, 0)
        home_mean == score_diff * MICRO + home_extra - away_extra
                     + (home_remaining_halves - away_remaining_halves)
                       * runs_per_half
        variance == ((home_remaining_halves + away_remaining_halves)
                     * runs_per_half * 13) \div 10 + 10000
        home_std == Isqrt(variance * 100)
        d == Max(home_std, 1000)
        m == Abs(home_mean)
        q == (m \div d) * 100 + ((m % d) * 100) \div d
    IN  norm_cdf(IF home_mean < 0 THEN 0 - q ELSE q)

\* the normal approximation returned without the clamp
wp_normal_unclamped(inning, top_bottom, re, score_diff, runs_per_game) ==
    wp_normal_raw(inning, top_bottom, re, score_diff, runs_per_game)

\* line 197: normal approximation
wp_normal(inning, top_bottom, re, score_diff, runs_per_game) ==
    Clamp(wp_normal_raw(inning, top_bottom, re, score_diff, runs_per_game))

calculate_wp(inning, top_bottom, outs, runners, score_diff, runs_per_game) ==
    LET re == get_re24(runners, outs, runs_per_game)
        remaining == _remaining_innings(inning, top_bottom)
        ret == calculate_wp_line(inning, top_bottom, score_diff)
    IN  CASE ret = 158 -> 990000
          [] ret = 169 -> wp_tied(re)
          [] ret = 181 -> wp_behind(re, score_diff)
          [] ret = 193 -> wp_top_lead(re, score_diff)
          [] OTHER -> wp_normal(inning, top_bottom, re, score_diff,
                                runs_per_game)

-----------------------------------------------------------------------------
(* Base-out transition *)

Outcomes == {"strikeout", "groundout", "flyout", "single", "walk", "double",
             "home_run", "double_play", "other_out"}

\* strikeout and other_out: the batter is out, the runners hold
outcome_out(r1, r2, r3, outs) == <<<<r1, r2, r3>>, Min(outs + 1, 3), 0>>

outcome_groundout(r1, r2, r3, outs) == <<<<0, r2, r3>>, Min(outs + 1, 3), 0>>

\* a sacrifice fly that scores on the third out too
outcome_flyout_any_outs(r1, r2, r3, outs) ==
    IF r3 = 1 THEN <<<<r1, r2, 0>>, Min(outs + 1, 3), 1>>
    ELSE <<<<r1, r2, r3>>, Min(outs + 1, 3), 0>>

\* flyout: sacrifice fly with a runner on third and fewer than two outs
outcome_flyout(r1, r2, r3, outs) ==
    IF r3 = 1 /\ outs < 2 THEN <<<<r1, r2, 0>>, Min(outs + 1, 3), 1>>
    ELSE <<<<r1, r2, r3>>, Min(outs + 1, 3), 0>>

\* a single on which the runner from third is not counted as a run
outcome_single_no_run(r1, r2, r3, outs) == <<<<1, r1, r2>>, outs, 0>>

outcome_single(r1, r2, r3, outs) == <<<<1, r1, r2>>, outs, r3>>

\* a walk that moves every runner up, forced or not
outcome_walk_all_advance(r1, r2, r3, outs) == <<<<1, r1, r2>>, outs, r3>>

outcome_walk(r1, r2, r3, outs) ==
    IF r1 = 1 /\ r2 = 1 /\ r3 = 1 THEN <<<<1, 1, 1>>, outs, 1>>
    ELSE IF r1 = 1 /\ r2 = 1 THEN <<<<1, 1, 1>>, outs, 0>>
    ELSE IF r1 = 1 THEN <<<<1, 1, r3>>, outs, 0>>
    ELSE <<<<1, r2, r3>>, outs, 0>>

\* a double that brings the runner on first home as well
outcome_double_clears_bases(r1, r2, r3, outs) ==
    <<<<0, 1, 0>>, outs, r1 + r2 + r3>>

outcome_double(r1, r2, r3, outs) == <<<<0, 1, r1>>, outs, r2 + r3>>

outcome_home_run(r1, r2, r3, outs) == <<<<0, 0, 0>>, outs, 1 + r1 + r2 + r3>>

\* a double play turned whenever first base is occupied, two outs charged
outcome_double_play_always(r1, r2, r3, outs) ==
    IF r1 = 1 THEN <<<<0, r2, r3>>, outs + 2, 0>>
    ELSE <<<<r1, r2, r3>>, Min(outs + 1, 3), 0>>

\* a double play turned with two outs already made
outcome_double_play_two_outs(r1, r2, r3, outs) ==
    IF r1 = 1 THEN <<<<0, r2, r3>>, Min(outs + 2, 3), 0>>
    ELSE <<<<r1, r2, r3>>, Min(outs + 1, 3), 0>>

outcome_double_play(r1, r2, r3, outs) ==
    IF r1 = 1 /\ outs < 2 THEN <<<<0, r2, r3>>, Min(outs + 2, 3), 0>>
    ELSE <<<<r1, r2, r3>>, Min(outs + 1, 3), 0>>

\* _apply_outcome: <<new_runners, new_outs, runs_scored>>
_apply_outcome(runners, outs, outcome) ==
    LET r1 == runners[1]
        r2 == runners[2]
        r3 == runners[3]
    IN  CASE outcome = "strikeout" -> outcome_out(r1, r2, r3, outs)
          [] outcome = "groundout" -> outcome_groundout(r1, r2, r3, outs)
          [] outcome = "flyout" -> outcome_flyout(r1, r2, r3, outs)
          [] outcome = "other_out" -> outcome_out(r1, r2, r3, outs)
          [] outcome = "single" -> outcome_single(r1, r2, r3, outs)
          [] outcome = "walk" -> outcome_walk(r1, r2, r3, outs)
          [] outcome = "double" -> outcome_double(r1, r2, r3, outs)
          [] outcome = "home_run" -> outcome_home_run(r1, r2, r3, outs)
          [] outcome = "double_play" -> outcome_double_play(r1, r2, r3, outs)
          [] OTHER -> <<<<r1, r2, r3>>, outs, 0>>

-----------------------------------------------------------------------------
(* Leverage index *)

\* OUTCOME_PROBS, in hundredths
OUTCOME_PROBS ==
    [o \in Outcomes |->
        CASE o = "strikeout" -> 22
          [] o = "groundout" -> 20
          [] o = "flyout" -> 12
          [] o = "single" -> 16
          [] o = "walk" -> 9
          [] o = "double" -> 5
          [] o = "home_run" -> 3
          [] o = "double_play" -> 3
          [] o = "other_out" -> 10]

\* the order in which the loop of calculate_li visits OUTCOME_PROBS
OutcomeOrder ==
    <<"strikeout", "groundout", "flyout", "single", "walk", "double",
      "home_run", "double_play", "other_out">>

\* LEAGUE_AVG_WP_SWING, in thousandths
LEAGUE_AVG_WP_SWING == 35

\* a post-outcome state that credits every run to the home team
li_new_state_home_scores(inning, top_bottom, outs, runners, score_diff, outcome) ==
    LET applied == _apply_outcome(runners, outs, outcome)
    IN  IF applied[2] >= 3
        THEN IF top_bottom = "top"
             THEN <<inning, "bottom", 0, <<0, 0, 0>>, score_diff + applied[3]>>
             ELSE <<inning + 1, "top", 0, <<0, 0, 0>>,
                    score_diff + applied[3]>>
        ELSE <<inning, top_bottom, applied[2], applied[1],
               score_diff + applied[3]>>

\* The state whose win probability calculate_li takes after an outcome:
\* <<inning, top_bottom, outs, runners, score_diff>>
li_new_state(inning, top_bottom, outs, runners, score_diff, outcome) ==
    LET applied == _apply_outcome(runners, outs, outcome)
        nr == applied[1]
        no == applied[2]
        runs == applied[3]
    IN  IF no >= 3
        THEN IF top_bottom = "top"
             THEN <<inning, "bottom", 0, <<0, 0, 0>>, score_diff - runs>>
             ELSE <<inning + 1, "top", 0, <<0, 0, 0>>, score_diff + runs>>
        ELSE IF top_bottom = "top"
             THEN <<inning, top_bottom, no, nr, score_diff - runs>>
             ELSE <<inning, top_bottom, no, nr, score_diff + runs>>

\* new_wp of one iteration of the loop of calculate_li
li_new_wp(inning, top_bottom, outs, runners, score_diff, runs_per_game, outcome) ==
    LET n == li_new_state(inning, top_bottom, outs, runners, score_diff,
                          outcome)
    IN  calculate_wp(n[1], n[2], n[3], n[4], n[5], runs_per_game)

\* total_wp_swing, the sum of prob * abs(new_wp - base_wp), in units of 1e-8
RECURSIVE li_swing_from(_, _, _, _, _, _, _, _)
li_swing_from(i, base_wp, inning, top_bottom, outs, runners, score_diff, runs_per_game) ==
    IF i > Len(OutcomeOrder) THEN 0
    ELSE LET outcome == OutcomeOrder[i]
             new_wp == li_new_wp(inning, top_bottom, outs, runners,
                                 score_diff, runs_per_game, outcome)
         IN  OUTCOME_PROBS[outcome] * Abs(new_wp - base_wp)
             + li_swing_from(i + 1, base_wp, inning, top_bottom, outs,
                             runners, score_diff, runs_per_game)

total_wp_swing(inning, top_bottom, outs, runners, score_diff, runs_per_game) ==
    li_swing_from(1, calculate_wp(inning, top_bottom, outs, runners,
                                  score_diff, runs_per_game),
                  inning, top_bottom, outs, runners, score_diff,
                  runs_per_game)

\* a leverage index cut to 2 decimals instead of rounded
li_of_swing_truncated(swing) == swing \div (LEAGUE_AVG_WP_SWING * 1000)

\* round(total_wp_swing / LEAGUE_AVG_WP_SWING, 2), in hundredths
li_of_swing(swing) ==
    (swing + (LEAGUE_AVG_WP_SWING * 1000) \div 2)
        \div (LEAGUE_AVG_WP_SWING * 1000)

\* calculate_li, in hundredths
calculate_li(inning, top_bottom, outs, runners, score_diff, runs_per_game) ==
    li_of_swing(total_wp_swing(inning, top_bottom, outs, runners, score_diff,
                               runs_per_game))

\* a labelling whose thresholds belong to the class below them
li_label_inclusive(li) ==
    IF li <= 50 THEN "Low"
    ELSE IF li <= 150 THEN "Medium"
    ELSE IF li <= 300 THEN "High"
    ELSE "Very High"

\* li_label, li in hundredths
li_label(li) ==
    IF li < 50 THEN "Low"
    ELSE IF li < 150 THEN "Medium"
    ELSE IF li < 300 THEN "High"
    ELSE "Very High"

-----------------------------------------------------------------------------
(* Tactical recommendations *)

\* the keys of TACTICS in the order of the dict
TacticOrder ==
    <<"sacrifice_bunt", "steal_2b", "steal_3b", "intentional_walk",
      "pitching_change", "pinch_hitter", "hit_and_run", "squeeze_play">>

\* one entry of TACTICS: success_rate in hundredths (0 when the entry has
\* none), max_outs as the set holding the limit (empty when it has none)
Tactic(name, success_rate, req1, req2, req3, open1, max_outs) ==
    [name |-> name, success_rate |-> success_rate,
     requires_runner_1b |-> req1, requires_runner_2b |-> req2,
     requires_runner_3b |-> req3, requires_open_1b |-> open1,
     max_outs |-> max_outs]

TACTICS ==
    [k \in {TacticOrder[i] : i \in 1..Len(TacticOrder)} |->
        CASE k = "sacrifice_bunt" ->
                Tactic("Sacrifice Bunt", 80, TRUE, FALSE, FALSE, FALSE, {1})
          [] k = "steal_2b" ->
                Tactic("Steal 2nd Base", 72, TRUE, FALSE, FALSE, FALSE, {})
          [] k = "steal_3b" ->
                Tactic("Steal 3rd Base", 65, FALSE, TRUE, FALSE, FALSE, {})
          [] k = "intentional_walk" ->
                Tactic("Intentional Walk", 0, FALSE, FALSE, FALSE, TRUE, {})
          [] k = "pitching_change" ->
                Tactic("Pitching Change", 0, FALSE, FALSE, FALSE, FALSE, {})
          [] k = "pinch_hitter" ->
                Tactic("Pinch Hitter", 0, FALSE, FALSE, FALSE, FALSE, {})
          [] k = "hit_and_run" ->
                Tactic("Hit and Run", 55, TRUE, FALSE, FALSE, FALSE, {})
          [] k = "squeeze_play" ->
                Tactic("Squeeze Play", 60, FALSE, FALSE, TRUE, FALSE, {1})]

\* preconditions that forget the limit on outs
tactic_applicable_any_outs(tactic, runners, outs) ==
    /\ ~(tactic.requires_runner_1b /\ runners[1] = 0)
    /\ ~(tactic.requires_runner_2b /\ runners[2] = 0)
    /\ ~(tactic.requires_runner_3b /\ runners[3] = 0)
    /\ ~(tactic.requires_open_1b /\ runners[1] = 1)

\* the preconditions of _evaluate_tactic (none of them returns None)
tactic_applicable(tactic, runners, outs) ==
    /\ ~(tactic.requires_runner_1b /\ runners[1] = 0)
    /\ ~(tactic.requires_runner_2b /\ runners[2] = 0)
    /\ ~(tactic.requires_runner_3b /\ runners[3] = 0)
    /\ ~(tactic.requires_open_1b /\ runners[1] = 1)
    /\ ~(\E m \in tactic.max_outs : outs > m)

\* success_rate * re_success + (1 - success_rate) * re_fail, in 1e-6 runs
expected_value(success_rate, re_success, re_fail) ==
    (success_rate * re_success + (100 - success_rate) * re_fail) \div 100

\* The base-out state a tactic is taken to lead to:
\* <<new runners, outs added, runs credited>>

\* line 419-421: the bunt succeeds
sacrifice_bunt_success(runners) ==
    LET r1 == runners[1]
        r2 == runners[2]
        r3 == runners[3]
        new_runners_s == <<0, Max(r2, r1),
                           Max(r3, IF r1 = 1 THEN r2 ELSE 0)>>
        runs_s == IF r3 = 1 /\ r1 = 1 THEN 1 ELSE 0
    IN  <<new_runners_s, 1, runs_s>>

\* line 423: the bunt fails, the batter is out and the runners stay
sacrifice_bunt_fail(runners) == <<runners, 1, 0>>

\* lines 428-429
steal_2b_success(runners) == <<<<0, 1, runners[3]>>, 0, 0>>

\* line 430
steal_2b_fail(runners) == <<<<0, runners[2], runners[3]>>, 1, 0>>

\* lines 435-436
steal_3b_success(runners) == <<<<runners[1], 0, 1>>, 0, 0>>

\* line 437
steal_3b_fail(runners) == <<<<runners[1], 0, runners[3]>>, 1, 0>>

\* line 448
hit_and_run_success(runners) ==
    <<<<1, 0, IF runners[1] = 1 THEN 1 ELSE runners[3]>>, 0,
      IF runners[3] = 1 THEN 1 ELSE 0>>

\* line 450
hit_and_run_fail(runners) == <<<<0, runners[2], runners[3]>>, 1, 0>>

\* line 455
squeeze_play_success(runners) ==
    <<<<IF runners[1] = 0 THEN runners[1] ELSE 0, runners[2], 0>>, 1, 1>>

\* line 456
squeeze_play_fail(runners) == <<<<runners[1], runners[2], 0>>, 1, 0>>

\* get_re24 of the state a tactic leads to, plus the runs credited
re_after_tactic(after, outs, runs_per_game) ==
    get_re24(after[1], outs + after[2], runs_per_game) + after[3] * MICRO

\* ev - current_re of a tactic with a success rate
delta_of_outcomes(success_rate, success, fail, runners, outs, runs_per_game) ==
    expected_value(success_rate,
                   re_after_tactic(success, outs, runs_per_game),
                   re_after_tactic(fail, outs, runs_per_game))
    - get_re24(runners, outs, runs_per_game)

delta_sacrifice_bunt(success_rate, runners, outs, runs_per_game) ==
    delta_of_outcomes(success_rate, sacrifice_bunt_success(runners),
                      sacrifice_bunt_fail(runners), runners, outs,
                      runs_per_game)

delta_steal_2b(success_rate, runners, outs, runs_per_game) ==
    delta_of_outcomes(success_rate, steal_2b_success(runners),
                      steal_2b_fail(runners), runners, outs, runs_per_game)

delta_steal_3b(success_rate, runners, outs, runs_per_game) ==
    delta_of_outcomes(success_rate, steal_3b_success(runners),
                      steal_3b_fail(runners), runners, outs, runs_per_game)

\* line 442: the batter is put on first
intentional_walk_new_runners(runners) == <<1, runners[2], runners[3]>>

\* an intentional walk valued from the side of the offense
delta_intentional_walk_offense(runners, outs, runs_per_game) ==
    LET re_after == get_re24(intentional_walk_new_runners(runners), outs,
                             runs_per_game)
    IN  re_after - get_re24(runners, outs, runs_per_game)

delta_intentional_walk(runners, outs, runs_per_game) ==
    LET re_after == get_re24(intentional_walk_new_runners(runners), outs,
                             runs_per_game)
    IN  0 - (re_after - get_re24(runners, outs, runs_per_game))

delta_hit_and_run(success_rate, runners, outs, runs_per_game) ==
    delta_of_outcomes(success_rate, hit_and_run_success(runners),
                      hit_and_run_fail(runners), runners, outs,
                      runs_per_game)

delta_squeeze_play(success_rate, runners, outs, runs_per_game) ==
    delta_of_outcomes(success_rate, squeeze_play_success(runners),
                      squeeze_play_fail(runners), runners, outs,
                      runs_per_game)

\* the states a tactic is taken to lead to: success and failure for a tactic
\* with a success rate, the one state after an intentional walk
tactic_outcomes(tactic_key, runners) ==
    CASE tactic_key = "sacrifice_bunt" ->
            <<sacrifice_bunt_success(runners), sacrifice_bunt_fail(runners)>>
      [] tactic_key = "steal_2b" ->
            <<steal_2b_success(runners), steal_2b_fail(runners)>>
      [] tactic_key = "steal_3b" ->
            <<steal_3b_success(runners), steal_3b_fail(runners)>>
      [] tactic_key = "intentional_walk" ->
            <<<<intentional_walk_new_runners(runners), 0, 0>>>>
      [] tactic_key = "hit_and_run" ->
            <<hit_and_run_success(runners), hit_and_run_fail(runners)>>
      [] tactic_key = "squeeze_play" ->
            <<squeeze_play_success(runners), squeeze_play_fail(runners)>>

\* the tactics whose recommendation comes from a change of run expectancy
ReTactics ==
    {"sacrifice_bunt", "steal_2b", "steal_3b", "intentional_walk",
     "hit_and_run", "squeeze_play"}

\* delta of _evaluate_tactic for an RE-based tactic, in 1e-6 runs
tactic_delta(tactic_key, success_rate, runners, outs, runs_per_game) ==
    CASE tactic_key = "sacrifice_bunt" ->
            delta_sacrifice_bunt(success_rate, runners, outs, runs_per_game)
      [] tactic_key = "steal_2b" ->
            delta_steal_2b(success_rate, runners, outs, runs_per_game)
      [] tactic_key = "steal_3b" ->
            delta_steal_3b(success_rate, runners, outs, runs_per_game)
      [] tactic_key = "intentional_walk" ->
            delta_intentional_walk(runners, outs, runs_per_game)
      [] tactic_key = "hit_and_run" ->
            delta_hit_and_run(success_rate, runners, outs, runs_per_game)
      [] tactic_key = "squeeze_play" ->
            delta_squeeze_play(success_rate, runners, outs, runs_per_game)

\* a classification that is Neutral from -0.02 on, the threshold included
recommendation_label_closed(delta) ==
    IF delta > 20000 THEN "Recommended"
    ELSE IF delta >= 0 - 20000 THEN "Neutral"
    ELSE "Not recommended"

\* rec of _evaluate_tactic (line 475), delta in 1e-6 runs
recommendation_label(delta) ==
    IF delta > 20000 THEN "Recommended"
    ELSE IF delta > 0 - 20000 THEN "Neutral"
    ELSE "Not recommended"

\* round(delta, 3), in thousandths
round3(delta) ==
    IF delta >= 0 THEN (delta + 500) \div 1000
    ELSE 0 - ((0 - delta + 500) \div 1000)

\* a leverage tactic suggested from average leverage on
leverage_tactic_from_average(tactic, li) ==
    IF li < 100 THEN <<>>
    ELSE <<[tactic |-> tactic.name, re24_delta |-> 0,
            recommendation |-> "Consider", success_rate |-> 0]>>

\* lines 460-471: pitching change and pinch hitter, li in hundredths
leverage_tactic(tactic, li) ==
    IF li < 150 THEN <<>>
    ELSE <<[tactic |-> tactic.name, re24_delta |-> 0,
            recommendation |-> "Consider", success_rate |-> 0]>>

\* _evaluate_tactic: the empty sequence for None, else the one dict returned
_evaluate_tactic(tactic_key, tactic, runners, outs, score_diff, inning, top_bottom, runs_per_game) ==
    IF ~tactic_applicable(tactic, runners, outs) THEN <<>>
    ELSE IF tactic_key \in ReTactics
    THEN LET delta == tactic_delta(tactic_key, tactic.success_rate, runners,
                                   outs, runs_per_game)
         IN  <<[tactic |-> tactic.name, re24_delta |-> round3(delta),
                recommendation |-> recommendation_label(delta),
                success_rate |-> tactic.success_rate]>>
    ELSE IF tactic_key \in {"pitching_change", "pinch_hitter"}
    THEN leverage_tactic(tactic,
                         calculate_li(inning, top_bottom, outs, runners,
                                      score_diff, runs_per_game))
    ELSE <<>>

\* order.get(x["recommendation"], 9)
rec_order(rec) ==
    CASE rec.recommendation = "Recommended" -> 0
      [] rec.recommendation = "Consider" -> 1
      [] rec.recommendation = "Neutral" -> 2
      [] rec.recommendation = "Not recommended" -> 3
      [] OTHER -> 9

\* a sort key that takes the delta ascending
sort_key_less_ascending(a, b) ==
    \/ rec_order(a) < rec_order(b)
    \/ rec_order(a) = rec_order(b) /\ a.re24_delta < b.re24_delta

\* the sort key (order, -re24_delta) of a is less than the one of b
sort_key_less(a, b) ==
    \/ rec_order(a) < rec_order(b)
    \/ rec_order(a) = rec_order(b) /\ 0 - a.re24_delta < 0 - b.re24_delta

\* x inserted into a sorted list behind every element that is not greater
RECURSIVE insert_rec(_, _)
insert_rec(sorted, x) ==
    IF sorted = <<>> THEN <<x>>
    ELSE IF sort_key_less(x, Head(sorted)) THEN <<x>> \o sorted
    ELSE <<Head(sorted)>> \o insert_rec(Tail(sorted), x)

\* recs.sort(key=...): a stable sort
RECURSIVE sort_recs_from(_, _, _)
sort_recs_from(recs, i, sorted) ==
    IF i > Len(recs) THEN sorted
    ELSE sort_recs_from(recs, i + 1, insert_rec(sorted, recs[i]))

sort_recs(recs) == sort_recs_from(recs, 1, <<>>)

\* the loop over TACTICS.items() that appends every result that is not None
RECURSIVE collect_recs(_, _, _, _, _, _, _)
collect_recs(i, inning, top_bottom, outs, runners, score_diff, runs_per_game) ==
    IF i > Len(TacticOrder) THEN <<>>
    ELSE _evaluate_tactic(TacticOrder[i], TACTICS[TacticOrder[i]], runners,
                          outs, score_diff, inning, top_bottom,
                          runs_per_game)
         \o collect_recs(i + 1, inning, top_bottom, outs, runners,
                         score_diff, runs_per_game)

get_tactical_recommendations(inning, top_bottom, outs, runners, score_diff, runs_per_game) ==
    sort_recs(collect_recs(1, inning, top_bottom, outs, runners, score_diff,
                           runs_per_game))

-----------------------------------------------------------------------------
(* Win probability added *)

\* GameState
GameState(inning, top_bottom, outs, runners, score_diff, runs_per_game) ==
    [inning |-> inning, top_bottom |-> top_bottom, outs |-> outs,
     runners |-> runners, score_diff |-> score_diff,
     runs_per_game |-> runs_per_game]

\* round(x, 4), x in units of 1e-6, value in units of 1e-4
round4(x) ==
    IF x >= 0 THEN (x + 50) \div 100
    ELSE 0 - ((0 - x + 50) \div 100)

\* a difference taken the wrong way round
calculate_wpa_reversed(before, after) ==
    LET wp_before == calculate_wp(before.inning, before.top_bottom,
                                  before.outs, before.runners,
                                  before.score_diff, before.runs_per_game)
        wp_after == calculate_wp(after.inning, after.top_bottom, after.outs,
                                 after.runners, after.score_diff,
                                 after.runs_per_game)
        wpa == wp_before - wp_after
    IN  [wpa |-> round4(wpa), wp_before |-> round4(wp_before),
         wp_after |-> round4(wp_after)]

calculate_wpa(before, after) ==
    LET wp_before == calculate_wp(before.inning, before.top_bottom,
                                  before.outs, before.runners,
                                  before.score_diff, before.runs_per_game)
        wp_after == calculate_wp(after.inning, after.top_bottom, after.outs,
                                 after.runners, after.score_diff,
                                 after.runs_per_game)
        wpa == wp_after - wp_before
    IN  [wpa |-> round4(wpa), wp_before |-> round4(wp_before),
         wp_after |-> round4(wp_after)]

-----------------------------------------------------------------------------
(* Matchup adjustment, preset scenarios and full analysis *)

\* Python's None and a value that is present
None == <<>>
Some(x) == <<x>>

\* truth value of an optional number in `batter_ops or pitcher_era`
Truthy(x) == x # None /\ x[1] # 0

\* a * 1e6 / b for a >= 0, b > 0, value in units of 1e-6, truncated
RECURSIVE DivDigits(_, _, _)
DivDigits(rem, b, n) ==
    IF n = 0 THEN 0
    ELSE ((rem * 10) \div b) * (10 ^ (n - 1))
         + DivDigits((rem * 10) % b, b, n - 1)

Div6(a, b) == (a \div b) * MICRO + DivDigits(a % b, b, 6)

\* ln 2, in units of 1e-6
LN2 == 693147

\* 2 * atanh(y) = 2 * (y + y^3/3 + y^5/5 + ...), 0 <= y <= 1/3, power = y^k
RECURSIVE AtanhSeries(_, _, _)
AtanhSeries(y2, k, power) ==
    IF power = 0 \/ k > 15 THEN 0
    ELSE (2 * power) \div k + AtanhSeries(y2, k + 2, Mul6(power, y2))

\* np.log(x) for x >= 1: halve x down to [1, 2), then the atanh series
RECURSIVE ln_from_one(_)
ln_from_one(x) ==
    IF x >= 2 * MICRO THEN LN2 + ln_from_one(x \div 2)
    ELSE LET y == Div6(x - MICRO, x + MICRO)
         IN  AtanhSeries(Mul6(y, y), 1, y)

\* np.log(p / (1 - p)), p and value in units of 1e-6, 0 < p < 1
logit_of(p) ==
    IF 2 * p >= MICRO THEN ln_from_one(Div6(p, MICRO - p))
    ELSE 0 - ln_from_one(Div6(MICRO - p, p))

\* 1.0 / (1.0 + np.exp(-logit)), in units of 1e-6
logistic(logit) ==
    IF logit >= 0 THEN Div6(MICRO, MICRO + exp_neg(logit))
    ELSE LET e == exp_neg(0 - logit)
         IN  Div6(e, MICRO + e)

\* line 523 and line 528: the league-average OPS .750 (thousandths) and ERA
\* 3.50 (hundredths); api.py:99-100: the accepted ranges
LEAGUE_OPS == 750
LEAGUE_ERA == 350
MAX_OPS == 2000
MAX_ERA == 1500

\* the logit after the shifts of lines 522-529, in units of 1e-6
adjusted_logit(p, batter_ops, pitcher_era) ==
    LET batter_adj == IF batter_ops # None
                      THEN (batter_ops[1] - LEAGUE_OPS) * 500 ELSE 0
        pitcher_adj == IF pitcher_era # None
                       THEN (LEAGUE_ERA - pitcher_era[1]) * 1500 ELSE 0
    IN  logit_of(p) + batter_adj - pitcher_adj

\* adjust_wp_for_matchup, in units of 1e-6
adjust_wp_for_matchup(base_wp, batter_ops, pitcher_era) ==
    IF batter_ops = None /\ pitcher_era = None THEN base_wp
    ELSE round4(Clamp(logistic(adjusted_logit(Clamp(base_wp), batter_ops,
                                              pitcher_era)))) * 100

\* f"{wp * 100:.1f}%", in tenths of a percent
pct1(wp) == (wp + 500) \div 1000

\* the state of a preset scenario
ScenarioState(inning, top_bottom, outs, runners, score_diff) ==
    [inning |-> inning, top_bottom |-> top_bottom, outs |-> outs,
     runners |-> runners, score_diff |-> score_diff]

ScenarioKeys ==
    {"ninth_inning_drama", "game_start", "rally_7th", "tied_8th",
     "walkoff_chance", "comfortable_lead"}

SCENARIOS ==
    [k \in ScenarioKeys |->
        CASE k = "ninth_inning_drama" ->
                [name |-> "9th Inning Drama",
                 state |-> ScenarioState(9, "bottom", 2, <<1, 1, 1>>, 0)]
          [] k = "game_start" ->
                [name |-> "Game Start",
                 state |-> ScenarioState(1, "top", 0, <<0, 0, 0>>, 0)]
          [] k = "rally_7th" ->
                [name |-> "7th Inning Rally",
                 state |-> ScenarioState(7, "bottom", 1, <<1, 1, 0>>, 0 - 1)]
          [] k = "tied_8th" ->
                [name |-> "Tied 8th",
                 state |-> ScenarioState(8, "top", 0, <<0, 0, 0>>, 0)]
          [] k = "walkoff_chance" ->
                [name |-> "Walk-off Chance",
                 state |-> ScenarioState(9, "bottom", 1, <<0, 1, 1>>, 0)]
          [] k = "comfortable_lead" ->
                [name |-> "Comfortable Lead",
                 state |-> ScenarioState(5, "top", 0, <<0, 0, 0>>, 3)]]

\* a lookup that falls back to the first preset for an unknown name
analyze_scenario_default(scenario_name, runs_per_game) ==
    LET key == IF scenario_name \in DOMAIN SCENARIOS THEN scenario_name
               ELSE "ninth_inning_drama"
        s == SCENARIOS[key].state
        wp == calculate_wp(s.inning, s.top_bottom, s.outs, s.runners,
                           s.score_diff, runs_per_game)
        li == calculate_li(s.inning, s.top_bottom, s.outs, s.runners,
                           s.score_diff, runs_per_game)
    IN  [scenario |-> SCENARIOS[key].name, game_state |-> s,
         win_probability |-> round4(wp), win_probability_pct |-> pct1(wp),
         leverage_index |-> li, leverage_label |-> li_label(li),
         tactics |-> get_tactical_recommendations(
                         s.inning, s.top_bottom, s.outs, s.runners,
                         s.score_diff, runs_per_game)]

\* analyze_scenario: the dict returned
analyze_scenario(scenario_name, runs_per_game) ==
    IF scenario_name \notin DOMAIN SCENARIOS
    THEN [error |-> <<"Unknown scenario: ", scenario_name>>]
    ELSE LET s == SCENARIOS[scenario_name].state
             wp == calculate_wp(s.inning, s.top_bottom, s.outs, s.runners,
                                s.score_diff, runs_per_game)
             li == calculate_li(s.inning, s.top_bottom, s.outs, s.runners,
                                s.score_diff, runs_per_game)
         IN  [scenario |-> SCENARIOS[scenario_name].name, game_state |-> s,
              win_probability |-> round4(wp),
              win_probability_pct |-> pct1(wp),
              leverage_index |-> li, leverage_label |-> li_label(li),
              tactics |-> get_tactical_recommendations(
                              s.inning, s.top_bottom, s.outs, s.runners,
                              s.score_diff, runs_per_game)]

\* an analysis that reports the adjusted value in place of the plain one
full_analysis_adjusted_only(inning, top_bottom, outs, runners, score_diff, runs_per_game, batter_ops, pitcher_era) ==
    LET wp == calculate_wp(inning, top_bottom, outs, runners, score_diff,
                           runs_per_game)
        li == calculate_li(inning, top_bottom, outs, runners, score_diff,
                           runs_per_game)
        adjusted_wp == adjust_wp_for_matchup(wp, batter_ops, pitcher_era)
    IN  [game_state |-> GameState(inning, top_bottom, outs, runners,
                                  score_diff, runs_per_game),
         win_probability |-> round4(adjusted_wp),
         win_probability_pct |-> pct1(wp),
         adjusted_wp |-> Some(round4(adjusted_wp)),
         leverage_index |-> li, leverage_label |-> li_label(li),
         tactics |-> get_tactical_recommendations(
                         inning, top_bottom, outs, runners, score_diff,
                         runs_per_game)]

\* full_analysis: the dict returned
full_analysis(inning, top_bottom, outs, runners, score_diff, runs_per_game, batter_ops, pitcher_era) ==
    LET wp == calculate_wp(inning, top_bottom, outs, runners, score_diff,
                           runs_per_game)
        li == calculate_li(inning, top_bottom, outs, runners, score_diff,
                           runs_per_game)
        adjusted_wp == adjust_wp_for_matchup(wp, batter_ops, pitcher_era)
    IN  [game_state |-> GameState(inning, top_bottom, outs, runners,
                                  score_diff, runs_per_game),
         win_probability |-> round4(wp),
         win_probability_pct |-> pct1(wp),
         adjusted_wp |-> IF Truthy(batter_ops) \/ Truthy(pitcher_era)
                         THEN Some(round4(adjusted_wp)) ELSE None,
         leverage_index |-> li, leverage_label |-> li_label(li),
         tactics |-> get_tactical_recommendations(
                         inning, top_bottom, outs, runners, score_diff,
                         runs_per_game)]

-----------------------------------------------------------------------------
(* Live feed (src/live_feed.py) *)

\* {**a, **b}
Merge(a, b) ==
    [k \in DOMAIN a \cup DOMAIN b |-> IF k \in DOMAIN b THEN b[k] ELSE a[k]]

\* get_live_state on the answer of the feed: None, or the linescore read
\* into an engine state; data is None when the fetch failed
get_live_state(data) ==
    IF data = None THEN None
    ELSE LET d == data[1]
         IN  Some([inning |-> d.currentInning,
                   top_bottom |-> IF d.isTopInning THEN "top" ELSE "bottom",
                   outs |-> Min(d.outs, 2),
                   runners |-> d.offense,
                   score_home |-> d.home_runs,
                   score_away |-> d.away_runs,
                   score_diff |-> d.home_runs - d.away_runs,
                   status |-> d.status])

\* line 211: the states in which the game has not started
NotStarted == {"Scheduled", "Pre-Game", "Warmup"}

\* get_live_wp: None, or the dict returned
get_live_wp(data, runs_per_game) ==
    LET state == get_live_state(data)
    IN  IF state = None THEN None
        ELSE IF state[1].status \in NotStarted
        THEN Some(Merge(state[1], [status_note |-> "Game not yet started",
                                   win_probability |-> None]))
        ELSE Some(Merge(state[1],
                        full_analysis(state[1].inning, state[1].top_bottom,
                                      state[1].outs, state[1].runners,
                                      state[1].score_diff, runs_per_game,
                                      None, None)))

\* result.get("homeScore", prev_home)
ScoreOr(score, prev) == IF score = None THEN prev ELSE score[1]

\* a replay that takes the score after the play for the score at its start
RECURSIVE plays_from_score_after(_, _, _, _)
plays_from_score_after(all_plays, i, prev_home, prev_away) ==
    IF i > Len(all_plays) THEN <<>>
    ELSE IF ~all_plays[i].isComplete
    THEN plays_from_score_after(all_plays, i + 1, prev_home, prev_away)
    ELSE LET home_score == ScoreOr(all_plays[i].homeScore, prev_home)
             away_score == ScoreOr(all_plays[i].awayScore, prev_away)
         IN  <<[score_diff |-> home_score - away_score,
                home_score |-> home_score, away_score |-> away_score]>>
             \o plays_from_score_after(all_plays, i + 1, home_score,
                                       away_score)

\* the loop of get_game_plays (lines 148-192) from play i on; of each play
\* returned only the score fields are kept, the others are copies of fields of
\* the play itself
RECURSIVE plays_from(_, _, _, _)
plays_from(all_plays, i, prev_home, prev_away) ==
    IF i > Len(all_plays) THEN <<>>
    ELSE IF ~all_plays[i].isComplete
    THEN plays_from(all_plays, i + 1, prev_home, prev_away)
    ELSE LET score_diff == prev_home - prev_away
             home_score == ScoreOr(all_plays[i].homeScore, prev_home)
             away_score == ScoreOr(all_plays[i].awayScore, prev_away)
         IN  <<[score_diff |-> score_diff, home_score |-> home_score,
                away_score |-> away_score]>>
             \o plays_from(all_plays, i + 1, home_score, away_score)

\* get_game_plays on the answer of the feed: data is None when the fetch
\* failed, else the list liveData.plays.allPlays
get_game_plays(data) ==
    IF data = None THEN <<>> ELSE plays_from(data[1], 1, 0, 0)

-----------------------------------------------------------------------------
(* The engine as called by its clients *)

Init ==
    /\ call = [fn |-> "none"]
    /\ result = 0
    /\ line = 0

Idle == call.fn = "none"

CallCalculateWp ==
    /\ Idle
    /\ \E inning \in Innings, top_bottom \in Halves, outs \in OutsValues,
       runners \in Runners, score_diff \in ScoreDiffs,
       runs_per_game \in RpgValues :
        /\ call' = [fn |-> "calculate_wp", inning |-> inning,
                    top_bottom |-> top_bottom, outs |-> outs,
                    runners |-> runners, score_diff |-> score_diff,
                    runs_per_game |-> runs_per_game]
        /\ result' = calculate_wp(inning, top_bottom, outs, runners,
                                  score_diff, runs_per_game)
        /\ line' = calculate_wp_line(inning, top_bottom, score_diff)

CallApplyOutcome ==
    /\ Idle
    /\ \E runners \in Runners, outs \in OutsValues, outcome \in Outcomes :
        /\ call' = [fn |-> "_apply_outcome", runners |-> runners,
                    outs |-> outs, outcome |-> outcome]
        /\ result' = _apply_outcome(runners, outs, outcome)
        /\ line' = 0

CallGetRe24 ==
    /\ Idle
    /\ \E runners \in Runners, outs \in 0..3, runs_per_game \in RpgValues :
        /\ call' = [fn |-> "get_re24", runners |-> runners, outs |-> outs,
                    runs_per_game |-> runs_per_game]
        /\ result' = get_re24(runners, outs, runs_per_game)
        /\ line' = 0

CallCalculateLi ==
    /\ Idle
    /\ \E inning \in Innings, top_bottom \in Halves, outs \in OutsValues,
          runners \in Runners, score_diff \in ScoreDiffs,
          runs_per_game \in RpgValues :
        /\ call' = [fn |-> "calculate_li", inning |-> inning,
                    top_bottom |-> top_bottom, outs |-> outs,
                    runners |-> runners, score_diff |-> score_diff,
                    runs_per_game |-> runs_per_game]
        /\ result' = calculate_li(inning, top_bottom, outs, runners,
                                  score_diff, runs_per_game)
        /\ line' = 0

\* one iteration of the loop of calculate_li (lines 277-294): the outcome is
\* applied and the state handed to calculate_wp is built
CallLiNewState ==
    /\ Idle
    /\ \E inning \in Innings, top_bottom \in Halves, outs \in OutsValues,
          runners \in Runners, score_diff \in ScoreDiffs,
          outcome \in Outcomes :
        /\ call' = [fn |-> "li_new_state", inning |-> inning,
                    top_bottom |-> top_bottom, outs |-> outs,
                    runners |-> runners, score_diff |-> score_diff,
                    outcome |-> outcome]
        /\ result' = [applied |-> _apply_outcome(runners, outs, outcome),
                      state |-> li_new_state(inning, top_bottom, outs,
                                             runners, score_diff, outcome)]
        /\ line' = 0

CallLiLabel ==
    /\ Idle
    /\ \E li \in 0..MaxLi :
        /\ call' = [fn |-> "li_label", li |-> li]
        /\ result' = li_label(li)
        /\ line' = 0

CallGetTacticalRecommendations ==
    /\ Idle
    /\ \E inning \in Innings, top_bottom \in Halves, outs \in OutsValues,
          runners \in Runners, score_diff \in ScoreDiffs,
          runs_per_game \in RpgValues :
        /\ call' = [fn |-> "get_tactical_recommendations",
                    inning |-> inning, top_bottom |-> top_bottom,
                    outs |-> outs, runners |-> runners,
                    score_diff |-> score_diff,
                    runs_per_game |-> runs_per_game]
        /\ result' = get_tactical_recommendations(inning, top_bottom, outs,
                                                  runners, score_diff,
                                                  runs_per_game)
        /\ line' = 0

\* the classification of line 475 applied to a delta, in steps of 0.001
ClassifyDelta ==
    /\ Idle
    /\ \E d \in (0 - MaxDelta)..MaxDelta :
        /\ call' = [fn |-> "recommendation", delta |-> d * 1000]
        /\ result' = recommendation_label(d * 1000)
        /\ line' = 475

\* one iteration of the loop of get_tactical_recommendations (lines 491-495)
\* for a tactic valued by run expectancy, which reads neither the inning nor
\* the score: the dict returned, the delta before rounding and the states the
\* tactic is taken to lead to
CallEvaluateTactic ==
    /\ Idle
    /\ \E tactic_key \in ReTactics, runners \in Runners, outs \in OutsValues,
          runs_per_game \in RpgGrid :
        /\ call' = [fn |-> "_evaluate_tactic", tactic_key |-> tactic_key,
                    runners |-> runners, outs |-> outs,
                    runs_per_game |-> runs_per_game]
        /\ result' =
              LET rec == _evaluate_tactic(tactic_key, TACTICS[tactic_key],
                                          runners, outs, 0, 1, "top",
                                          runs_per_game)
              IN  IF rec = <<>> THEN [rec |-> rec]
                  ELSE [rec |-> rec,
                        delta |-> tactic_delta(tactic_key,
                                               TACTICS[tactic_key].success_rate,
                                               runners, outs, runs_per_game),
                        outcomes |-> tactic_outcomes(tactic_key, runners)]
        /\ line' = 0

\* the quality signals of /wp: absent, or an end of the accepted range
OpsValues == {None, Some(0), Some(MAX_OPS)}
EraValues == {None, Some(0), Some(MAX_ERA)}
AnalysisDiffs == (0 - MaxAnalysisDiff)..MaxAnalysisDiff

\* GET /wp
CallFullAnalysis ==
    /\ Idle
    /\ \E inning \in Innings, top_bottom \in Halves, outs \in OutsValues,
          runners \in Runners, score_diff \in AnalysisDiffs,
          batter_ops \in OpsValues, pitcher_era \in EraValues :
        /\ call' = [fn |-> "full_analysis", inning |-> inning,
                    top_bottom |-> top_bottom, outs |-> outs,
                    runners |-> runners, score_diff |-> score_diff,
                    runs_per_game |-> MLB_RPG, batter_ops |-> batter_ops,
                    pitcher_era |-> pitcher_era]
        /\ result' = full_analysis(inning, top_bottom, outs, runners,
                                   score_diff, MLB_RPG, batter_ops,
                                   pitcher_era)
        /\ line' = 0

\* the names handed to analyze_scenario: the presets, an unknown name and
\* the empty string
ScenarioNames == ScenarioKeys \cup {"extra_innings", ""}

\* GET /wp/scenario and the preset selector of the UI
CallAnalyzeScenario ==
    /\ Idle
    /\ \E scenario_name \in ScenarioNames, runs_per_game \in RpgGrid :
        /\ call' = [fn |-> "analyze_scenario",
                    scenario_name |-> scenario_name,
                    runs_per_game |-> runs_per_game]
        /\ result' = analyze_scenario(scenario_name, runs_per_game)
        /\ line' = 0

\* what the feed may answer for a game: nothing, or a linescore
LiveStatuses == NotStarted \cup {"In Progress", "Final"}
Scores == 0..MaxRuns

LiveData ==
    {None} \cup
    {Some([status |-> status, currentInning |-> inning,
           isTopInning |-> is_top, outs |-> outs, offense |-> runners,
           home_runs |-> home, away_runs |-> away]) :
        status \in LiveStatuses, inning \in Innings, is_top \in BOOLEAN,
        outs \in 0..3, runners \in Runners, home \in Scores,
        away \in Scores}

\* GET /wp/live/{game_pk}
CallGetLiveWp ==
    /\ Idle
    /\ \E data \in LiveData, runs_per_game \in {NPB_RPG, MLB_RPG} :
        /\ call' = [fn |-> "get_live_wp", data |-> data,
                    runs_per_game |-> runs_per_game]
        /\ result' = get_live_wp(data, runs_per_game)
        /\ line' = 0

\* the plays of the feed: complete or not, each with the score after it,
\* where a score may be missing
FeedPlays ==
    [isComplete : BOOLEAN, homeScore : {None} \cup {Some(n) : n \in Scores},
     awayScore : {None} \cup {Some(n) : n \in Scores}]

PlayLists == UNION {[1..n -> FeedPlays] : n \in 0..MaxPlays}

\* the replay mode of the UI
CallGetGamePlays ==
    /\ Idle
    /\ \E data \in {None} \cup {Some(plays) : plays \in PlayLists} :
        /\ call' = [fn |-> "get_game_plays", data |-> data]
        /\ result' = get_game_plays(data)
        /\ line' = 0

\* a play reported to /wp/play: the state before it and either the same state
\* again or the state that one of the plate-appearance outcomes leads to
CallCalculateWpa ==
    /\ Idle
    /\ \E inning \in Innings, top_bottom \in Halves, outs \in OutsValues,
          runners \in Runners, score_diff \in ScoreDiffs,
          runs_per_game \in RpgValues, play \in Outcomes \cup {"none"} :
        LET before == GameState(inning, top_bottom, outs, runners,
                                score_diff, runs_per_game)
            n == li_new_state(inning, top_bottom, outs, runners, score_diff,
                              play)
            after == IF play = "none" THEN before
                     ELSE GameState(n[1], n[2], Min(n[3], 2), n[4], n[5],
                                    runs_per_game)
        IN  /\ call' = [fn |-> "calculate_wpa", before |-> before,
                        after |-> after]
            /\ result' = calculate_wpa(before, after)
            /\ line' = 0

\* the client takes the result; the engine keeps nothing of the call
Return ==
    /\ ~Idle
    /\ call' = [fn |-> "none"]
    /\ result' = 0
    /\ line' = 0

Next ==
    \/ CallCalculateWp
    \/ CallApplyOutcome
    \/ CallGetRe24
    \/ CallLiLabel
    \/ Return

Spec == Init /\ [][Next]_vars

\* the clients of the leverage index
NextLi ==
    \/ CallCalculateWp
    \/ CallCalculateLi
    \/ Return

SpecLi == Init /\ [][NextLi]_vars

\* the base-out transition and its use by the loop of calculate_li
NextLiStep ==
    \/ CallApplyOutcome
    \/ CallLiNewState
    \/ Return

SpecLiStep == Init /\ [][NextLiStep]_vars

\* the clients of the tactical recommendations
NextTactics ==
    \/ CallGetTacticalRecommendations
    \/ ClassifyDelta
    \/ Return

SpecTactics == Init /\ [][NextTactics]_vars

\* the evaluation of one tactic
NextEvaluate ==
    \/ CallEvaluateTactic
    \/ Return

SpecEvaluate == Init /\ [][NextEvaluate]_vars

\* the clients of the full analysis
NextAnalysis ==
    \/ CallFullAnalysis
    \/ Return

SpecAnalysis == Init /\ [][NextAnalysis]_vars

\* the clients of the preset scenarios
NextScenario ==
    \/ CallAnalyzeScenario
    \/ Return

SpecScenario == Init /\ [][NextScenario]_vars

\* the live win probability
NextLive ==
    \/ CallGetLiveWp
    \/ Return

SpecLive == Init /\ [][NextLive]_vars

\* the replay of a game
NextReplay ==
    \/ CallGetGamePlays
    \/ Return

SpecReplay == Init /\ [][NextReplay]_vars

\* the clients of the win probability added
NextWpa ==
    \/ CallCalculateWpa
    \/ Return

SpecWpa == Init /\ [][NextWpa]_vars

-----------------------------------------------------------------------------
(* Properties of calculate_wp *)

IsWp == call.fn = "calculate_wp"

WpAt(score_diff) ==
    calculate_wp(call.inning, call.top_bottom, call.outs, call.runners,
                 score_diff, call.runs_per_game)

\* C1: every value calculate_wp returns, on every return path, lies in
\* [0.01, 0.99].
C1_WpInRange == IsWp => result >= 10000 /\ result <= 990000

\* C1 witness: a call that leaves through the normal approximation with a raw
\* value above 0.99 and gets the clamped value.
C1_Witness ==
    /\ IsWp
    /\ line = 197
    /\ wp_normal_raw(call.inning, call.top_bottom,
                     get_re24(call.runners, call.outs, call.runs_per_game),
                     call.score_diff, call.runs_per_game) > 990000
    /\ result = 990000

IsGameStart ==
    /\ IsWp
    /\ call.inning = 1
    /\ call.top_bottom = "top"
    /\ call.outs = 0
    /\ call.runners = <<0, 0, 0>>
    /\ call.score_diff = 0
    /\ call.runs_per_game = MLB_RPG

\* C2: at game start (top of the 1st, no outs, bases empty, tie, 4.5 runs per
\* game) the win probability is within 0.48 .. 0.52.
C2_GameStartNearHalf == IsGameStart => result >= 480000 /\ result <= 520000

C4_BottomNinthOverride ==
    (IsWp /\ call.top_bottom = "bottom" /\ call.inning >= 9) =>
        /\ line # 197
        /\ call.score_diff > 0 => (result = 990000 /\ line = 158)

\* C4 witness: a home lead in the bottom of the 9th or later, returned at the
\* first endgame return.
C4_Witness ==
    /\ IsWp
    /\ call.top_bottom = "bottom"
    /\ call.inning >= 9
    /\ call.score_diff > 0
    /\ line = 158
    /\ result = 990000

-----------------------------------------------------------------------------
(* Properties of _apply_outcome *)

IsApply(outcome) == call.fn = "_apply_outcome" /\ call.outcome = outcome

new_runners == result[1]
new_outs == result[2]
runs_scored == result[3]

\* C5: for every outcome and outs in 0..2, the new outs are at least the old
\* ones and at most 3.
C5_OutsCapped ==
    call.fn = "_apply_outcome" => new_outs >= call.outs /\ new_outs <= 3

\* C5 witness: a double play with one out ends the half inning at 3 outs.
C5_Witness ==
    /\ IsApply("double_play")
    /\ call.outs = 1
    /\ call.runners[1] = 1
    /\ new_outs = 3

\* C6: a walk puts the batter on first, moves a runner up one base exactly
\* when every base behind him was occupied, leaves the outs and scores one
\* run exactly when the bases were loaded.
C6_WalkForcedOnly ==
    IsApply("walk") =>
        LET r1 == call.runners[1]
            r2 == call.runners[2]
            r3 == call.runners[3]
            forced2 == r1 = 1
            forced3 == r1 = 1 /\ r2 = 1
        IN  /\ new_runners[1] = 1
            /\ new_runners[2] = (IF forced2 THEN 1 ELSE r2)
            /\ new_runners[3] = (IF forced3 THEN 1 ELSE r3)
            /\ new_outs = call.outs
            /\ runs_scored = (IF r1 = 1 /\ r2 = 1 /\ r3 = 1 THEN 1 ELSE 0)

\* C6 witness: a walk with runners on first and third: the runner on first is
\* forced to second, the runner on third stays and does not score.
C6_Witness ==
    /\ IsApply("walk")
    /\ call.runners = <<1, 0, 1>>
    /\ new_runners = <<1, 1, 1>>
    /\ runs_scored = 0

\* C7: a single gives runners (1, r1, r2) and r3 runs, a double (0, 1, r1) and
\* r2 + r3 runs, a home run (0, 0, 0) and 1 + r1 + r2 + r3 runs; the outs are
\* unchanged in all three.
C7_Hits ==
    LET r1 == call.runners[1]
        r2 == call.runners[2]
        r3 == call.runners[3]
    IN  /\ IsApply("single") => result = <<<<1, r1, r2>>, call.outs, r3>>
        /\ IsApply("double") => result = <<<<0, 1, r1>>, call.outs, r2 + r3>>
        /\ IsApply("home_run") =>
               result = <<<<0, 0, 0>>, call.outs, 1 + r1 + r2 + r3>>

\* C7 witness: a double with runners on first and second: the runner from
\* second scores and the runner from first stops at third.
C7_Witness ==
    /\ IsApply("double")
    /\ call.runners = <<1, 1, 0>>
    /\ new_runners = <<0, 1, 1>>
    /\ runs_scored = 1

OtherOutResult == _apply_outcome(call.runners, call.outs, "other_out")

\* C8: a flyout with a runner on third and fewer than two outs scores one run,
\* empties third, leaves first and second and adds an out; any other flyout
\* equals the other-out result (outs + 1, runners unchanged, no run).
C8_Flyout ==
    IsApply("flyout") =>
        IF call.runners[3] = 1 /\ call.outs < 2
        THEN result = <<<<call.runners[1], call.runners[2], 0>>,
                        call.outs + 1, 1>>
        ELSE /\ result = OtherOutResult
             /\ result = <<call.runners, call.outs + 1, 0>>

\* C8 witness: a sacrifice fly.
C8_Witness ==
    /\ IsApply("flyout")
    /\ call.runners[3] = 1
    /\ call.outs < 2
    /\ runs_scored = 1
    /\ new_runners[3] = 0

\* C9: a double play with a runner on first and fewer than two outs removes
\* that runner, adds two outs, leaves second and third and scores nothing; any
\* other double play equals the other-out result.
C9_DoublePlay ==
    IsApply("double_play") =>
        IF call.runners[1] = 1 /\ call.outs < 2
        THEN result = <<<<0, call.runners[2], call.runners[3]>>,
                        call.outs + 2, 0>>
        ELSE /\ result = OtherOutResult
             /\ result = <<call.runners, call.outs + 1, 0>>

\* C9 witness: a double play turned with nobody out.
C9_Witness ==
    /\ IsApply("double_play")
    /\ call.runners[1] = 1
    /\ call.outs = 0
    /\ new_outs = 2
    /\ new_runners[1] = 0

-----------------------------------------------------------------------------
(* Properties of get_re24 *)

\* C10: get_re24 returns 0 for every key outside the 24-entry table (outs = 3
\* in particular) and, inside it, the table value scaled by
\* runs_per_game / 4.5, which is not negative.
C10_Re24Lookup ==
    call.fn = "get_re24" =>
        LET key == <<call.runners[1], call.runners[2], call.runners[3],
                     call.outs>>
        IN  IF key \in DOMAIN RE24_MLB
            THEN /\ result >= 0
                 /\ result * MLB_RPG <= RE24_MLB[key] * 1000 * call.runs_per_game
                 /\ RE24_MLB[key] * 1000 * call.runs_per_game
                        < (result + 1) * MLB_RPG
            ELSE result = 0

\* C10 witness: a lookup with 3 outs and runners on base.
C10_Witness ==
    /\ call.fn = "get_re24"
    /\ call.outs = 3
    /\ call.runners = <<1, 1, 1>>
    /\ result = 0

\* C11: get_re24(r, o, rpg) equals get_re24(r, o, 4.5) multiplied by
\* rpg / 4.5, for every runner triple, outs and runs_per_game.
C11_Re24LinearScaling ==
    call.fn = "get_re24" =>
        result = (get_re24(call.runners, call.outs, MLB_RPG)
                  * call.runs_per_game) \div MLB_RPG

\* C11 witness: a table state looked up at 8.0 runs per game (more than the
\* reference value).
C11_Witness ==
    /\ call.fn = "get_re24"
    /\ call.runs_per_game = MAX_RPG
    /\ call.outs < 3
    /\ result > get_re24(call.runners, call.outs, MLB_RPG)

-----------------------------------------------------------------------------
(* Properties of calculate_li and li_label *)

IsLi == call.fn = "calculate_li"

LiBaseWp ==
    calculate_wp(call.inning, call.top_bottom, call.outs, call.runners,
                 call.score_diff, call.runs_per_game)

LiNewWp(outcome) ==
    li_new_wp(call.inning, call.top_bottom, call.outs, call.runners,
              call.score_diff, call.runs_per_game, outcome)

LiSwing ==
    total_wp_swing(call.inning, call.top_bottom, call.outs, call.runners,
                   call.score_diff, call.runs_per_game)

\* C16 (as claimed): calculate_li is never negative, and it is 0 only when
\* every one of the nine outcomes gives the base win probability.
C16_ZeroOnlyIfNoSwing ==
    IsLi => /\ result >= 0
            /\ result = 0 => \A o \in Outcomes : LiNewWp(o) = LiBaseWp

\* C16 (amended): calculate_li is never negative, and it is 0 only when the
\* expected swing is at most half of the last kept digit, that is
\* sum(prob * |new_wp - base_wp|) <= 0.005 * 0.035.
C16_ZeroOnlyIfSwingRoundsAway ==
    IsLi => /\ result >= 0
            /\ result = 0 => LiSwing * 2 <= LEAGUE_AVG_WP_SWING * 1000

\* C16 witness: a leverage index of 0 although some outcome changes the win
\* probability.
C16_Witness ==
    /\ IsLi
    /\ result = 0
    /\ \E o \in Outcomes : LiNewWp(o) # LiBaseWp

IsNinthInningDrama ==
    /\ call.inning = 9
    /\ call.top_bottom = "bottom"
    /\ call.outs = 2
    /\ call.runners = <<1, 1, 1>>
    /\ call.score_diff = 0
    /\ call.runs_per_game = MLB_RPG

\* C18: bottom of the 9th, 2 outs, bases loaded, tie, 4.5 runs per game: the
\* win probability is above 0.5 and the leverage index is labelled Very High.
C18_NinthInningDrama ==
    /\ (IsWp /\ IsNinthInningDrama) => result > 500000
    /\ (IsLi /\ IsNinthInningDrama) =>
           (result >= 300 /\ li_label(result) = "Very High")

\* C18 witness: the leverage index of that state has been computed.
C18_Witness ==
    /\ IsLi
    /\ IsNinthInningDrama
    /\ LiBaseWp > 500000
    /\ li_label(result) = "Very High"

-----------------------------------------------------------------------------
(* Properties of get_tactical_recommendations *)

IsRecs == call.fn = "get_tactical_recommendations"

RecNames == {result[i].tactic : i \in 1..Len(result)}

\* C12: a tactic whose precondition fails is left out: no steal of 2nd, bunt
\* or hit and run with first base empty, no steal of 3rd with second base
\* empty, no squeeze with third base empty, no intentional walk with first
\* base occupied, no bunt or squeeze with 2 outs.
C12_OnlyApplicableTactics ==
    IsRecs =>
        /\ call.runners[1] = 0 =>
               RecNames \cap {"Steal 2nd Base", "Sacrifice Bunt",
                              "Hit and Run"} = {}
        /\ call.runners[2] = 0 => "Steal 3rd Base" \notin RecNames
        /\ call.runners[3] = 0 => "Squeeze Play" \notin RecNames
        /\ call.runners[1] = 1 => "Intentional Walk" \notin RecNames
        /\ call.outs = 2 =>
               RecNames \cap {"Sacrifice Bunt", "Squeeze Play"} = {}

\* C12 witness: runners on first and third with 2 outs: the steal and the hit
\* and run are listed, the bunt, the squeeze and the walk are left out.
C12_Witness ==
    /\ IsRecs
    /\ call.runners = <<1, 0, 1>>
    /\ call.outs = 2
    /\ {"Steal 2nd Base", "Hit and Run"} \subseteq RecNames
    /\ RecNames \cap {"Sacrifice Bunt", "Squeeze Play", "Intentional Walk",
                      "Steal 3rd Base"} = {}

IsClassify == call.fn = "recommendation"

\* the key of the RE-based tactic with the given display name
ReKeyOf(name) == CHOOSE k \in ReTactics : TACTICS[k].name = name

ReNames == {TACTICS[k].name : k \in ReTactics}

\* the delta that _evaluate_tactic computed for the i-th entry of the result
RecRawDelta(i) ==
    LET k == ReKeyOf(result[i].tactic)
    IN  tactic_delta(k, TACTICS[k].success_rate, call.runners, call.outs,
                     call.runs_per_game)

\* C13 (as claimed): Recommended iff delta > 0.02, Not recommended iff
\* delta < -0.02, Neutral for every delta from -0.02 to 0.02, both included.
C13_NeutralBetweenClosedThresholds ==
    IsClassify =>
        /\ result = "Recommended" <=> call.delta > 20000
        /\ result = "Not recommended" <=> call.delta < 0 - 20000
        /\ result = "Neutral" <=>
               (call.delta >= 0 - 20000 /\ call.delta <= 20000)

\* C13 (amended): Recommended iff delta > 0.02, Not recommended iff
\* delta <= -0.02, Neutral iff -0.02 < delta <= 0.02; and every RE-based entry
\* of a recommendation list carries the label of its own delta.
C13_NeutralAboveLowerThreshold ==
    /\ IsClassify =>
        /\ result = "Recommended" <=> call.delta > 20000
        /\ result = "Not recommended" <=> call.delta <= 0 - 20000
        /\ result = "Neutral" <=>
               (call.delta > 0 - 20000 /\ call.delta <= 20000)
    /\ IsRecs =>
        \A i \in 1..Len(result) :
            result[i].tactic \in ReNames =>
                result[i].recommendation =
                    (IF RecRawDelta(i) > 20000 THEN "Recommended"
                     ELSE IF RecRawDelta(i) > 0 - 20000 THEN "Neutral"
                     ELSE "Not recommended")

\* C13 witness: a delta of exactly -0.02 is classified Not recommended.
C13_Witness ==
    /\ IsClassify
    /\ call.delta = 0 - 20000
    /\ result = "Not recommended"

RecsLi ==
    calculate_li(call.inning, call.top_bottom, call.outs, call.runners,
                 call.score_diff, call.runs_per_game)

\* C14: Pitching Change and Pinch Hitter are listed only when the leverage
\* index is at least 1.5, then as Consider with a delta of 0, and always
\* together.
C14_LeverageTactics ==
    IsRecs =>
        /\ \A i \in 1..Len(result) :
               result[i].tactic \in {"Pitching Change", "Pinch Hitter"} =>
                   /\ RecsLi >= 150
                   /\ result[i].recommendation = "Consider"
                   /\ result[i].re24_delta = 0
        /\ "Pitching Change" \in RecNames <=> "Pinch Hitter" \in RecNames

\* C14 witness: a high-leverage state in which both are listed.
C14_Witness ==
    /\ IsRecs
    /\ RecsLi >= 150
    /\ {"Pitching Change", "Pinch Hitter"} \subseteq RecNames

ClassRank(rec) ==
    CASE rec.recommendation = "Recommended" -> 0
      [] rec.recommendation = "Consider" -> 1
      [] rec.recommendation = "Neutral" -> 2
      [] rec.recommendation = "Not recommended" -> 3

\* C15: the list is ordered by class (Recommended, Consider, Neutral, Not
\* recommended) and, within a class, by re24_delta from high to low.
C15_Sorted ==
    IsRecs =>
        \A i, j \in 1..Len(result) :
            i < j =>
                /\ ClassRank(result[i]) <= ClassRank(result[j])
                /\ ClassRank(result[i]) = ClassRank(result[j]) =>
                       result[i].re24_delta >= result[j].re24_delta

\* C15 witness: a list with entries of three classes and two entries of one
\* class with different deltas.
C15_Witness ==
    /\ IsRecs
    /\ Cardinality({ClassRank(result[i]) : i \in 1..Len(result)}) >= 3
    /\ \E i, j \in 1..Len(result) :
           /\ i < j
           /\ ClassRank(result[i]) = ClassRank(result[j])
           /\ result[i].re24_delta > result[j].re24_delta

-----------------------------------------------------------------------------
(* Properties of calculate_wpa *)

IsWpa == call.fn = "calculate_wpa"

WpOf(s) ==
    calculate_wp(s.inning, s.top_bottom, s.outs, s.runners, s.score_diff,
                 s.runs_per_game)

\* C19: calculate_wpa reports the difference wp_after - wp_before of the win
\* probabilities of its two states (each figure rounded to 4 decimals), and
\* for equal states it reports wpa = 0 and wp_before = wp_after.
C19_WpaDifference ==
    IsWpa =>
        /\ result.wpa = round4(WpOf(call.after) - WpOf(call.before))
        /\ result.wp_before = round4(WpOf(call.before))
        /\ result.wp_after = round4(WpOf(call.after))
        /\ call.before = call.after =>
               (result.wpa = 0 /\ result.wp_before = result.wp_after)

\* a play that changes the win probability of the home team for the worse
\* has been evaluated
WpaPlayReached ==
    /\ IsWpa
    /\ call.before # call.after
    /\ result.wpa < 0
    /\ result.wp_after < result.wp_before

\* C19 witness: the reflexive case, the same state before and after.
C19_Witness ==
    /\ IsWpa
    /\ call.before = call.after
    /\ result.wpa = 0
    /\ result.wp_before = result.wp_after

-----------------------------------------------------------------------------
(* Properties of the loop of calculate_li *)

IsLiStep == call.fn = "li_new_state"

\* the score differential after `runs` runs by the team at bat
ScoreAfter(runs) ==
    IF call.top_bottom = "top" THEN call.score_diff - runs
    ELSE call.score_diff + runs

\* C23: the state calculate_li evaluates after an outcome is, when the
\* transition yields 3 outs, the next half inning with 0 outs and empty bases
\* (top of n -> bottom of n, bottom of n -> top of n + 1), and otherwise the
\* same inning and half with the new runners and outs; in both cases the runs
\* of the outcome are subtracted from the score differential when the visitor
\* bats and added when the home team bats.
C23_PostOutcomeState ==
    IsLiStep =>
        LET new_runners_of == result.applied[1]
            new_outs_of == result.applied[2]
            runs == result.applied[3]
        IN  IF new_outs_of = 3
            THEN /\ result.state[1] =
                        IF call.top_bottom = "top" THEN call.inning
                        ELSE call.inning + 1
                 /\ result.state[2] =
                        IF call.top_bottom = "top" THEN "bottom" ELSE "top"
                 /\ result.state[3] = 0
                 /\ result.state[4] = <<0, 0, 0>>
                 /\ result.state[5] = ScoreAfter(runs)
            ELSE /\ result.state[1] = call.inning
                 /\ result.state[2] = call.top_bottom
                 /\ result.state[3] = new_outs_of
                 /\ result.state[4] = new_runners_of
                 /\ result.state[5] = ScoreAfter(runs)

\* C23 witness: a home run with two on in the top half takes three runs off
\* the differential and stays in the half inning.
C23_Witness ==
    /\ IsLiStep
    /\ call.top_bottom = "top"
    /\ call.outcome = "home_run"
    /\ call.runners = <<1, 1, 0>>
    /\ result.state = <<call.inning, "top", call.outs, <<0, 0, 0>>,
                        call.score_diff - 3>>

\* C27: whenever the transition returns 3 outs from a state with 0, 1 or 2
\* outs, no run scores on it, so the half-inning flip of calculate_li passes
\* the score differential on unchanged.
C27_NoRunOnThirdOut ==
    IsLiStep /\ result.applied[2] = 3 =>
        /\ result.applied[3] = 0
        /\ result.state[5] = call.score_diff

\* C27 witness: a fly ball with a runner on third and two outs ends the half
\* inning without a sacrifice fly.
C27_Witness ==
    /\ IsLiStep
    /\ call.outcome = "flyout"
    /\ call.runners[3] = 1
    /\ call.outs = 2
    /\ result.applied = <<call.runners, 3, 0>>
    /\ result.state[3] = 0
    /\ result.state[5] = call.score_diff

-----------------------------------------------------------------------------
(* Conservation of players in _apply_outcome *)

OnBase(runners) == runners[1] + runners[2] + runners[3]

\* runners and batter before the outcome less runners, runs and outs after it
PlayersLost ==
    (OnBase(call.runners) + 1)
        - (OnBase(new_runners) + runs_scored + (new_outs - call.outs))

\* C26: for each of the nine outcomes and outs in 0..2, the runners on base
\* before plus the batter equal the runners on base after plus the runs scored
\* plus the outs added.
C26_PlayerConservation ==
    call.fn = "_apply_outcome" => PlayersLost = 0

\* C26 as amended: the same balance holds for every outcome except a
\* groundout with a runner on first, where the runner on first leaves the
\* bases without scoring and without an out being charged for him, so that
\* exactly one player is unaccounted for.
C26_ConservationExceptForcedRunner ==
    call.fn = "_apply_outcome" =>
        PlayersLost = IF call.outcome = "groundout" /\ call.runners[1] = 1
                      THEN 1 ELSE 0

\* C26 witness: a groundout with runners on first and third and one out
\* leaves only the runner on third, with two outs and no run.
C26_Witness ==
    /\ IsApply("groundout")
    /\ call.runners = <<1, 0, 1>>
    /\ call.outs = 1
    /\ result = <<<<0, 0, 1>>, 2, 0>>
    /\ PlayersLost = 1

-----------------------------------------------------------------------------
(* Properties of the evaluation of one tactic *)

IsEval == call.fn = "_evaluate_tactic"

IsApplicableEval(tactic_key) ==
    IsEval /\ call.tactic_key = tactic_key /\ result.rec # <<>>

\* the tactics evaluated through a success rate
ProbabilisticTactics ==
    {"sacrifice_bunt", "steal_2b", "steal_3b", "hit_and_run", "squeeze_play"}

\* 1 when the batter puts the ball in play, 0 for a steal
BatterInPlay(tactic_key) ==
    IF tactic_key \in {"steal_2b", "steal_3b"} THEN 0 ELSE 1

\* runners, runs and outs after a tactic less runners (and batter) before it
TacticBalance(after) ==
    (OnBase(after[1]) + after[3] + after[2])
        - (OnBase(call.runners) + BatterInPlay(call.tactic_key))

\* C28: for each probabilistic tactic and every state in which it applies, the
\* success outcome and the failure outcome both conserve players: runners after
\* plus runs credited plus outs added equal runners before, plus one when the
\* batter puts the ball in play.
C28_TacticConservation ==
    \A k \in ProbabilisticTactics :
        IsApplicableEval(k) =>
            /\ TacticBalance(result.outcomes[1]) = 0
            /\ TacticBalance(result.outcomes[2]) = 0

\* C29: with first base open, outs in 0..2 and runs_per_game from 2.0 to 8.0,
\* the delta of the intentional walk is below -0.02, so that the tactic is
\* returned and classified "Not recommended".
C29_IntentionalWalkNotRecommended ==
    IsEval /\ call.tactic_key = "intentional_walk" /\ call.runners[1] = 0 =>
        /\ Len(result.rec) = 1
        /\ result.rec[1].tactic = "Intentional Walk"
        /\ result.delta < 0 - 20000
        /\ result.rec[1].recommendation = "Not recommended"

\* C29 witness: the smallest loss of the defense, runner on second, two outs,
\* 2.0 runs per game: 0.110 * 2.0 / 4.5 = 0.0489 runs given away.
C29_Witness ==
    /\ IsApplicableEval("intentional_walk")
    /\ call.runners = <<0, 1, 0>>
    /\ call.outs = 2
    /\ call.runs_per_game = MIN_RPG
    /\ result.outcomes[1][1] = <<1, 1, 0>>
    /\ result.rec[1].re24_delta = 0 - 49
    /\ result.rec[1].recommendation = "Not recommended"

-----------------------------------------------------------------------------
(* Properties of analyze_scenario and full_analysis *)

IsScenario == call.fn = "analyze_scenario"

AnalysisFields ==
    {"win_probability", "win_probability_pct", "leverage_index",
     "leverage_label", "tactics"}

\* C21: analyze_scenario with a name that is not a preset key returns a dict
\* holding an error description and nothing else; with one of the six preset
\* keys it returns the full analysis record without an error field.
C21_UnknownScenario ==
    IsScenario =>
        IF call.scenario_name \in ScenarioKeys
        THEN /\ "error" \notin DOMAIN result
             /\ AnalysisFields \subseteq DOMAIN result
             /\ result.game_state = SCENARIOS[call.scenario_name].state
             /\ result.leverage_label = li_label(result.leverage_index)
        ELSE /\ DOMAIN result = {"error"}
             /\ result.error[2] = call.scenario_name

\* C21 witness: a name that is no preset has been looked up.
C21_Witness ==
    /\ IsScenario
    /\ call.scenario_name = "extra_innings"
    /\ result = [error |-> <<"Unknown scenario: ", "extra_innings">>]

IsFull == call.fn = "full_analysis"

\* C22: in the record of full_analysis adjusted_wp is non-null only when at
\* least one of batter_ops and pitcher_era was supplied; when neither is
\* supplied adjusted_wp is null and win_probability is the calculate_wp value.
C22_AdjustedOnlyWhenSupplied ==
    IsFull =>
        /\ result.adjusted_wp # None =>
                call.batter_ops # None \/ call.pitcher_era # None
        /\ call.batter_ops = None /\ call.pitcher_era = None =>
                /\ result.adjusted_wp = None
                /\ result.win_probability =
                        round4(calculate_wp(call.inning, call.top_bottom,
                                            call.outs, call.runners,
                                            call.score_diff,
                                            call.runs_per_game))

\* C22 witness: with a batter of OPS 2.000 and no pitcher given, the adjusted
\* value is present and above the plain one.
C22_Witness ==
    /\ IsFull
    /\ call.batter_ops = Some(MAX_OPS)
    /\ call.pitcher_era = None
    /\ result.adjusted_wp # None
    /\ result.adjusted_wp[1] > result.win_probability

\* C30: full_analysis reports a non-null adjusted_wp whenever at least one
\* quality signal is supplied with a value of its accepted range, the boundary
\* 0.0 included.
C30_AdjustedWhenSupplied ==
    IsFull /\ (call.batter_ops # None \/ call.pitcher_era # None) =>
        result.adjusted_wp # None

-----------------------------------------------------------------------------
(* Properties of the live feed *)

IsPlays == call.fn = "get_game_plays"

\* the complete plays of the feed, in order
CompletePlays ==
    IF call.data = None THEN <<>>
    ELSE SelectSeq(call.data[1], LAMBDA p : p.isComplete)

\* C24: each play returned by get_game_plays carries as score_diff the home
\* minus away score at its start: that of the play returned before it, and 0
\* for the first; plays that are not complete are skipped and leave the
\* running score alone.
C24_ScoreAtStartOfPlay ==
    IsPlays =>
        /\ Len(result) = Len(CompletePlays)
        /\ \A i \in 1..Len(result) :
            LET before_home == IF i = 1 THEN 0 ELSE result[i - 1].home_score
                before_away == IF i = 1 THEN 0 ELSE result[i - 1].away_score
            IN  /\ result[i].score_diff = before_home - before_away
                /\ result[i].home_score =
                        ScoreOr(CompletePlays[i].homeScore, before_home)
                /\ result[i].away_score =
                        ScoreOr(CompletePlays[i].awayScore, before_away)

\* C24 witness: the home team scores on the first play, a play that is not
\* complete follows with another score, and the third play starts from the
\* score of the first.
C24_Witness ==
    /\ IsPlays
    /\ call.data # None
    /\ Len(call.data[1]) = 3
    /\ call.data[1][1] = [isComplete |-> TRUE, homeScore |-> Some(1),
                          awayScore |-> Some(0)]
    /\ call.data[1][2] = [isComplete |-> FALSE, homeScore |-> Some(0),
                          awayScore |-> Some(1)]
    /\ call.data[1][3].isComplete
    /\ Len(result) = 2
    /\ result[1].score_diff = 0
    /\ result[2].score_diff = 1

IsLive == call.fn = "get_live_wp"

\* C25: get_live_wp returns None when the live state cannot be fetched; for a
\* game not yet started or already final it returns the live state with a
\* status note and win_probability None, without the analysis; only for a game
\* in progress does it merge the output of full_analysis into the state.
C25_LiveWpOnlyInProgress ==
    IsLive =>
        IF call.data = None THEN result = None
        ELSE /\ result # None
             /\ result[1].status = call.data[1].status
             /\ IF call.data[1].status \in NotStarted \cup {"Final"}
                THEN /\ "tactics" \notin DOMAIN result[1]
                     /\ "status_note" \in DOMAIN result[1]
                     /\ result[1].win_probability = None
                ELSE /\ AnalysisFields \subseteq DOMAIN result[1]
                     /\ "status_note" \notin DOMAIN result[1]
                     /\ result[1].win_probability =
                            round4(calculate_wp(result[1].inning,
                                                result[1].top_bottom,
                                                result[1].outs,
                                                result[1].runners,
                                                result[1].score_diff,
                                                call.runs_per_game))

====
